---- MODULE Spec2Model ----
(***************************************************************************)
(* The useDontLeave hook (src/src/useDontLeave.js) as a state machine.     *)
(*                                                                         *)
(* The state is the host environment the hook reads and writes (viewport   *)
(* width, document.hidden, document.title, the sessionStorage marker, the  *)
(* pending window.setTimeout timers, the registered event listeners) and,  *)
(* per mounted hook instance, its three useState cells, the values the     *)
(* last render closed over, and whether a state update still awaits its    *)
(* render.  An event is dispatched to every listener registered for it, in *)
(* registration order, in one step; the render that a state update asks    *)
(* for, and the effect run that follows the render, are a later step.      *)
(***************************************************************************)
EXTENDS Integers, Sequences, FiniteSets, TLC

(* ------------------------------ bounds -------------------------------- *)

\* timers window.setTimeout hands out in one run (ids 1..MaxTimerId)
MaxTimerId == 2
\* listeners one instance has registered at any one time
MaxListeners == 3
\* onTrigger invocations counted per instance
MaxCalls == 2
\* host events delivered while a state update still awaits its render
MaxStale == 1

\* hook instances that share the document and the session store
Inst == {1, 2}

(* ------------------------- program constants -------------------------- *)

DefaultMobileWidthThreshold == 768
DefaultPercentThreshold == 30
DefaultDelay == 200
DefaultTitle == "We miss you!"
toleranceTop == 50
toleranceSides == 250

\* useState('') : the initial originalTitle
InitialOriginalTitle == ""
\* useState(null) : the initial timeoutId (timer ids are positive)
NoTimeout == 0
\* document.title before any instance touches it
PageTitle == "Page"

(* ------------------------------ inputs -------------------------------- *)

DefaultOptions ==
    [ mobileWidthThreshold |-> DefaultMobileWidthThreshold,
      scrollMobile         |-> TRUE,
      scrollDesktop        |-> FALSE,
      percentThreshold     |-> DefaultPercentThreshold,
      triggerMouseMove     |-> TRUE,
      tabMobile            |-> FALSE,
      tabDesktop           |-> TRUE,
      tabDelay             |-> DefaultDelay,
      tabTitle             |-> DefaultTitle,
      storeInUserSession   |-> TRUE ]

\* the configurations a run draws from
Configs ==
    { DefaultOptions,
      [DefaultOptions EXCEPT !.storeInUserSession = FALSE],
      [DefaultOptions EXCEPT !.mobileWidthThreshold = 0],
      [DefaultOptions EXCEPT !.mobileWidthThreshold = 500, !.scrollDesktop = TRUE,
                             !.tabMobile = TRUE, !.percentThreshold = 0],
      [DefaultOptions EXCEPT !.triggerMouseMove = FALSE, !.scrollMobile = FALSE,
                             !.tabDesktop = FALSE] }

\* window.innerWidth
Widths == {768, 1024}

\* pointer positions <<clientX, clientY>>
Points == { <<250, 50>>, <<251, 50>>, <<774, 50>>, <<250, 51>> }

\* scroll positions <<window.scrollY, scrollHeight - innerHeight>>
Scrolls == { <<300, 1000>>, <<299, 1000>>, <<10, 0>>, <<10, -100>> }

(* ------------------------------ state --------------------------------- *)

VARIABLES
    opts,           \* [Inst -> Configs] : the options prop of each instance
    life,           \* [Inst -> {"absent", "new", "mounted", "unmounted"}]
    hasTriggered,   \* [Inst -> BOOLEAN]   useState(false)
    originalTitle,  \* [Inst -> STRING]    useState('')
    timeoutId,      \* [Inst -> 0..MaxTimerId]  useState(null)
    needRender,     \* [Inst -> BOOLEAN] : a state update awaits its render
    closure,        \* [Inst -> record] : the state values of the last render
    hasCleanup,     \* [Inst -> BOOLEAN] : the last effect run returned a cleanup
    listeners,      \* Seq of registered listeners, in registration order
    width,          \* window.innerWidth
    hidden,         \* document.hidden
    title,          \* document.title
    store,          \* sessionStorage holds the marker
    storage,        \* how sessionStorage behaves: "ok", "absent", "full", "denied"
    hostError,      \* an exception left the hook and reached the host
    timers,         \* pending timers
    nextTimerId,    \* the id the next window.setTimeout returns
    calls,          \* [Inst -> Nat] : onTrigger invocations
    actSat,         \* [Inst -> {"none","yes","no"}] : gate satisfied by the
                    \*   session marker when the instance's first effect ran
    stale,          \* host events delivered since a render became due
    ev              \* the last host event and what its handlers did

vars == << opts, life, hasTriggered, originalTitle, timeoutId, needRender,
           closure, hasCleanup, listeners, width, hidden, title,
           store, storage, hostError, timers, nextTimerId, calls, actSat,
           stale, ev >>

hostVars == << width, hidden, title, store, timers, nextTimerId >>
hookVars == << life, hasTriggered, originalTitle, timeoutId, needRender,
               closure, hasCleanup, listeners, calls, actSat >>

NoTimer == [id |-> 0, inst |-> 0, returned |-> FALSE, orphaned |-> FALSE]

\* ev: the kind of the last host event ("none" after a React step), the
\* instances whose handler invoked onTrigger in it, the timer that expired
NoEv == [type |-> "none", fired |-> {}, timer |-> NoTimer]

(* --------------------------- pure helpers ----------------------------- *)

\* options.mobileWidthThreshold || 768
WidthThreshold(o) ==
    IF o.mobileWidthThreshold = 0 THEN DefaultMobileWidthThreshold
    ELSE o.mobileWidthThreshold

\* percentThreshold || 30
PercentThreshold(o) ==
    IF o.percentThreshold = 0 THEN DefaultPercentThreshold ELSE o.percentThreshold

\* triggerTabChangeConfig.title || 'We miss you!'
FlashTitle(o) == IF o.tabTitle = "" THEN DefaultTitle ELSE o.tabTitle

\* handleVisibilityChange: window.innerWidth > (options.mobileWidthThreshold || 768)
IsDesktopVis(w, o) == w > WidthThreshold(o)

\* handleMouseMove: window.innerWidth > (mobileWidthThreshold || 768)
IsDesktopMouse(w, o) == w > WidthThreshold(o)

\* handleScroll: window.innerWidth <= (mobileWidthThreshold || 768)
IsMobileScroll(w, o) == w <= WidthThreshold(o)

\* handleVisibilityChange: the viewport is enabled for the title change
TabEligible(w, o) ==
    \/ IsDesktopVis(w, o) /\ o.tabDesktop
    \/ ~IsDesktopVis(w, o) /\ o.tabMobile

\* handleMouseMove: isTopLeft || isTopRight
InHotZone(x, y, w) ==
    LET isTopLeft  == y <= toleranceTop /\ x <= toleranceSides
        isTopRight == y <= toleranceTop /\ x >= w - toleranceSides
    IN  isTopLeft \/ isTopRight

\* handleMouseMove: the conditions under which it fires
MouseFires(x, y, w, o) ==
    o.triggerMouseMove /\ IsDesktopMouse(w, o) /\ InHotZone(x, y, w)

\* (scrollTop / docHeight) * 100 >= p, in IEEE arithmetic: a division by zero
\* gives Infinity (scrollTop > 0) or NaN (scrollTop = 0, every comparison
\* false); a negative docHeight turns the comparison around.
ScrollPercentGE(scrollTop, docHeight, p) ==
    IF docHeight > 0 THEN scrollTop * 100 >= p * docHeight
    ELSE IF docHeight = 0 THEN scrollTop > 0
    ELSE scrollTop * 100 <= p * docHeight

\* handleScroll: the conditions under which it fires
ScrollFires(scrollTop, docHeight, w, o) ==
    /\ \/ IsMobileScroll(w, o) /\ o.scrollMobile
       \/ ~IsMobileScroll(w, o) /\ o.scrollDesktop
    /\ ScrollPercentGE(scrollTop, docHeight, PercentThreshold(o))

\* sessionStorage?.getItem(KEY) at line 79 throws: every access to the store
\* is denied, and the || and && before it do not short-circuit
GetItemThrows(h, o, mode) == mode = "denied" /\ ~h /\ o.storeInUserSession

\* sessionStorage?.setItem(KEY, 'true') at lines 100 and 124 throws: access
\* is denied or the quota is exhausted (an absent store is skipped by ?.)
SetItemThrows(o, mode) == mode \in {"denied", "full"} /\ o.storeInUserSession

\* mutant: the early return forgets the session marker
AlreadySatisfied_MemoryOnly(h, o, s) == h

\* mutant: the early return reads the marker whatever storeInUserSession says
AlreadySatisfied_AlwaysReads(h, o, s) == h \/ s

\* the effect's early return: hasTriggered || (storeInUserSession && getItem(KEY))
AlreadySatisfied(h, o, s) == h \/ (o.storeInUserSession /\ s)

(* --------------------------- listener lists --------------------------- *)

Listener(i, k, c, cur) ==
    [inst |-> i, kind |-> k, cur |-> cur, tid |-> c.timeoutId,
     otitle |-> c.originalTitle]

\* how many listeners of kind k instance i has registered
Count(ls, i, k) ==
    Cardinality({ n \in 1..Len(ls) : ls[n].inst = i /\ ls[n].kind = k })

Hearers(ls, k) == { ls[n].inst : n \in { m \in 1..Len(ls) : ls[m].kind = k } }

(* ------------------------------ React --------------------------------- *)

InitialState ==
    [hasTriggered |-> FALSE, originalTitle |-> InitialOriginalTitle,
     timeoutId |-> NoTimeout]

CurrentState(i) ==
    [hasTriggered |-> hasTriggered[i], originalTitle |-> originalTitle[i],
     timeoutId |-> timeoutId[i]]

\* The page before any instance is mounted.  The instances in `cast` are the
\* ones the page will mount, each with options of its own.  The session may
\* already hold the marker (written earlier in the same browsing session)
\* and sessionStorage may misbehave: the initial predicates below choose.
InitPage(cast) ==
    /\ opts \in { o \in [Inst -> Configs] :
                     \A i \in Inst \ cast : o[i] = DefaultOptions }
    /\ life = [i \in Inst |-> IF i \in cast THEN "new" ELSE "absent"]
    /\ hasTriggered = [i \in Inst |-> FALSE]
    /\ originalTitle = [i \in Inst |-> InitialOriginalTitle]
    /\ timeoutId = [i \in Inst |-> NoTimeout]
    /\ needRender = [i \in Inst |-> FALSE]
    /\ closure = [i \in Inst |-> InitialState]
    /\ hasCleanup = [i \in Inst |-> FALSE]
    /\ listeners = << >>
    /\ width = 1024
    /\ title = PageTitle
    /\ hostError = FALSE
    /\ timers = {}
    /\ nextTimerId = 1
    /\ calls = [i \in Inst |-> 0]
    /\ actSat = [i \in Inst |-> "none"]
    /\ stale = 0
    /\ ev = NoEv

\* the page is in the foreground and sessionStorage works
InitWith(cast) ==
    /\ InitPage(cast)
    /\ hidden = FALSE
    /\ storage = "ok"
    /\ store \in BOOLEAN

\* a page with one instance of the hook
Init == InitWith({1})

\* a page with two instances of the hook
InitSession == InitWith(Inst)

\* The cleanup function the effect returns (lines 141-149): it removes the
\* three listeners of the run that returned it.
Cleanup(ls, i) == SelectSeq(ls, LAMBDA l : ~(l.inst = i /\ l.cur))

\* The listeners one run of the effect registers (lines 76-138), for the
\* values c the run closed over.  A run that takes the early return
\* registers the visibilitychange listener only, and returns no cleanup.
Registered(i, c, sat) ==
    IF sat THEN << Listener(i, "vis", c, FALSE) >>
    ELSE << Listener(i, "vis", c, TRUE) >>
         \o (IF opts[i].triggerMouseMove
             THEN << Listener(i, "mouse", c, TRUE) >> ELSE << >>)
         \o (IF opts[i].scrollMobile \/ opts[i].scrollDesktop
             THEN << Listener(i, "scroll", c, TRUE) >> ELSE << >>)

\* One run of the effect (lines 42-160) of a render that closed over the
\* state values c: the previous run's cleanup, if that run returned one,
\* then the body.  If the read of the marker throws, the body stops at line
\* 79, after it has registered the visibilitychange listener and before it
\* returns a cleanup; React reports the error and unmounts the component.
RunEffect(i, c) ==
    LET thrown == GetItemThrows(c.hasTriggered, opts[i], storage)
        sat  == AlreadySatisfied(c.hasTriggered, opts[i], store)
        kept == IF hasCleanup[i] THEN Cleanup(listeners, i) ELSE listeners
        ls   == kept \o Registered(i, c, sat \/ thrown)
    IN  /\ Len(SelectSeq(ls, LAMBDA l : l.inst = i)) <= MaxListeners
        /\ listeners' = ls
        /\ hasCleanup' = [hasCleanup EXCEPT ![i] = ~(sat \/ thrown)]
        /\ hostError' = (hostError \/ thrown)
        /\ life' = [life EXCEPT ![i] = IF thrown THEN "unmounted" ELSE "mounted"]
        \* setOriginalTitle(document.title)
        /\ originalTitle' = [originalTitle EXCEPT ![i] = title]
        /\ needRender' = [needRender EXCEPT ![i] =
                            ~thrown /\ title # originalTitle[i]]
        /\ actSat' = [actSat EXCEPT ![i] =
                        IF @ # "none" THEN @
                        ELSE IF opts[i].storeInUserSession /\ store
                             THEN "yes" ELSE "no"]

\* The component mounts: the first render sees the useState initial values,
\* and its effect runs.
Mount(i) ==
    /\ life[i] = "new"
    /\ closure' = [closure EXCEPT ![i] = InitialState]
    /\ RunEffect(i, InitialState)
    /\ ev' = NoEv
    /\ UNCHANGED << opts, storage, hasTriggered, timeoutId, calls >>
    /\ UNCHANGED hostVars

\* The render that follows a state update, and its effect.  The effect runs
\* again only if one of its dependencies (hasTriggered, timeoutId,
\* originalTitle; lines 150-160) differs from the previous render's.
Render(i) ==
    /\ life[i] = "mounted"
    /\ needRender[i]
    /\ closure' = [closure EXCEPT ![i] = CurrentState(i)]
    /\ IF CurrentState(i) # closure[i]
       THEN RunEffect(i, CurrentState(i))
       ELSE /\ needRender' = [needRender EXCEPT ![i] = FALSE]
            /\ UNCHANGED << listeners, hasCleanup, originalTitle, actSat,
                            life, hostError >>
    /\ ev' = NoEv
    /\ UNCHANGED << opts, storage, hasTriggered, timeoutId, calls >>
    /\ UNCHANGED hostVars

\* The parent renders again and hands the hook a new onTrigger function or
\* new option objects (the README's usage creates both inline): the
\* dependencies differ, so the effect runs again.
ParentRender(i) ==
    /\ life[i] = "mounted"
    /\ closure' = [closure EXCEPT ![i] = CurrentState(i)]
    /\ RunEffect(i, CurrentState(i))
    /\ ev' = NoEv
    /\ UNCHANGED << opts, storage, hasTriggered, timeoutId, calls >>
    /\ UNCHANGED hostVars

\* The component unmounts: React runs the cleanup the last effect run
\* returned, if it returned one.  Timers are left as they are.
Unmount(i) ==
    /\ life[i] = "mounted"
    /\ life' = [life EXCEPT ![i] = "unmounted"]
    /\ listeners' = IF hasCleanup[i] THEN Cleanup(listeners, i) ELSE listeners
    /\ hasCleanup' = [hasCleanup EXCEPT ![i] = FALSE]
    /\ needRender' = [needRender EXCEPT ![i] = FALSE]
    /\ timers' = { IF t.inst = i THEN [t EXCEPT !.orphaned = TRUE] ELSE t
                   : t \in timers }
    /\ ev' = NoEv
    /\ UNCHANGED << opts, storage, hasTriggered, originalTitle, timeoutId, closure,
                    calls, actSat >>
    /\ UNCHANGED << width, hidden, title, store, hostError, nextTimerId >>

(* --------------------------- host events ------------------------------ *)

\* the instances whose gate is not satisfied: mounted, not triggered in
\* memory, and not covered by the session marker
GateUnsat ==
    { i \in Inst : life[i] = "mounted"
                   /\ ~AlreadySatisfied(hasTriggered[i], opts[i], store) }

\* What the handlers that fire do (lines 97-101 and 121-125), for the set
\* `fired` of instances whose handler fires: setHasTriggered(true),
\* onTrigger(), and the session marker if storeInUserSession.  A state
\* update of an unmounted component is dropped.  A setItem that throws
\* leaves the handler as an uncaught exception, after onTrigger has run.
Fire(fired, kind) ==
    /\ \A i \in fired : calls[i] + Count(listeners, i, kind) <= MaxCalls
    /\ calls' = [i \in Inst |->
                    IF i \in fired THEN calls[i] + Count(listeners, i, kind)
                    ELSE calls[i]]
    /\ hasTriggered' = [i \in Inst |->
                    hasTriggered[i] \/ (i \in fired /\ life[i] = "mounted")]
    /\ needRender' = [i \in Inst |->
                    needRender[i]
                    \/ (i \in fired /\ life[i] = "mounted" /\ ~hasTriggered[i])]
    /\ store' = (store \/ (storage = "ok"
                            /\ \E i \in fired : opts[i].storeInUserSession))
    /\ hostError' = (hostError
                      \/ \E i \in fired : SetItemThrows(opts[i], storage))

\* A mousemove event at (x, y), dispatched to every mousemove listener
\* (an event no listener is registered for reaches nothing of the program).
MouseMove(x, y) ==
    LET heard == Hearers(listeners, "mouse")
        fired == { i \in heard : MouseFires(x, y, width, opts[i]) }
    IN  /\ heard # {}
        /\ Fire(fired, "mouse")
        /\ ev' = [NoEv EXCEPT !.type = "mouse", !.fired = fired]
        /\ UNCHANGED << opts, storage, life, originalTitle, timeoutId, closure,
                        hasCleanup, listeners, actSat >>
        /\ UNCHANGED << width, hidden, title, timers, nextTimerId >>

\* A scroll event with window.scrollY = scrollTop and
\* scrollHeight - innerHeight = docHeight, dispatched to every scroll listener.
Scroll(scrollTop, docHeight) ==
    LET heard == Hearers(listeners, "scroll")
        fired == { i \in heard :
                     ScrollFires(scrollTop, docHeight, width, opts[i]) }
    IN  /\ heard # {}
        /\ Fire(fired, "scroll")
        /\ ev' = [NoEv EXCEPT !.type = "scroll", !.fired = fired]
        /\ UNCHANGED << opts, storage, life, originalTitle, timeoutId, closure,
                        hasCleanup, listeners, actSat >>
        /\ UNCHANGED << width, hidden, title, timers, nextTimerId >>

\* One visibilitychange listener l runs (lines 53-73) while document.hidden
\* is nowHidden.  acc carries what the listeners before it left:
\* the pending timers, the next timer id, the timeoutId cells and the title.
HandleVisibilityChange(l, nowHidden, acc) ==
    LET i == l.inst
        mounted == life[i] = "mounted"
    IN  IF ~TabEligible(width, opts[i]) THEN acc
        ELSE IF nowHidden
        THEN [acc EXCEPT
                !.timers = @ \cup { [id |-> acc.nextTimerId, inst |-> i,
                                     returned |-> FALSE,
                                     orphaned |-> FALSE] },
                !.nextTimerId = @ + 1,
                !.timeoutId = IF mounted
                              THEN [@ EXCEPT ![i] = acc.nextTimerId] ELSE @]
        ELSE [acc EXCEPT
                !.timers = IF l.tid # NoTimeout
                           THEN { t \in @ : t.id # l.tid } ELSE @,
                !.timeoutId = IF l.tid # NoTimeout /\ mounted
                              THEN [@ EXCEPT ![i] = NoTimeout] ELSE @,
                !.title = l.otitle]

RECURSIVE VisDispatch(_, _, _)
VisDispatch(ls, nowHidden, acc) ==
    IF ls = << >> THEN acc
    ELSE VisDispatch(Tail(ls), nowHidden,
                     IF Head(ls).kind = "vis"
                     THEN HandleVisibilityChange(Head(ls), nowHidden, acc)
                     ELSE acc)

\* mutant: the visibility handler also writes the session marker
VisibilityChange_MarksSession ==
    LET nowHidden == ~hidden
        acc0 == [timers |-> timers, nextTimerId |-> nextTimerId,
                 timeoutId |-> timeoutId, title |-> title]
        acc  == VisDispatch(listeners, nowHidden, acc0)
    IN  /\ acc.nextTimerId <= MaxTimerId + 1
        /\ hidden' = nowHidden
        \* a timer that outlives a return of the tab is marked
        /\ timers' = IF nowHidden THEN acc.timers
                     ELSE { [t EXCEPT !.returned = TRUE] : t \in acc.timers }
        /\ nextTimerId' = acc.nextTimerId
        /\ timeoutId' = acc.timeoutId
        /\ title' = acc.title
        /\ needRender' = [i \in Inst |->
                            needRender[i] \/ acc.timeoutId[i] # timeoutId[i]]
        /\ ev' = [NoEv EXCEPT !.type = "vis"]
        /\ UNCHANGED << opts, storage, life, hasTriggered, originalTitle, closure,
                        hasCleanup, listeners, calls, actSat >>
        /\ store' = TRUE
        /\ UNCHANGED << width, hostError >>

\* document.hidden flips and the visibilitychange event is dispatched to
\* every visibilitychange listener, in registration order.
VisibilityChange ==
    LET nowHidden == ~hidden
        acc0 == [timers |-> timers, nextTimerId |-> nextTimerId,
                 timeoutId |-> timeoutId, title |-> title]
        acc  == VisDispatch(listeners, nowHidden, acc0)
    IN  /\ acc.nextTimerId <= MaxTimerId + 1
        /\ hidden' = nowHidden
        \* a timer that outlives a return of the tab is marked
        /\ timers' = IF nowHidden THEN acc.timers
                     ELSE { [t EXCEPT !.returned = TRUE] : t \in acc.timers }
        /\ nextTimerId' = acc.nextTimerId
        /\ timeoutId' = acc.timeoutId
        /\ title' = acc.title
        /\ needRender' = [i \in Inst |->
                            needRender[i] \/ acc.timeoutId[i] # timeoutId[i]]
        /\ ev' = [NoEv EXCEPT !.type = "vis"]
        /\ UNCHANGED << opts, storage, life, hasTriggered, originalTitle, closure,
                        hasCleanup, listeners, calls, actSat >>
        /\ UNCHANGED << width, store, hostError >>

\* mutant: the timer expires and its callback leaves the title alone
TimerFire_KeepsTitle(t) ==
    /\ t \in timers
    /\ timers' = timers \ {t}
    /\ ev' = [NoEv EXCEPT !.type = "timer", !.timer = t]
    /\ UNCHANGED << opts, storage, title >>
    /\ UNCHANGED hookVars
    /\ UNCHANGED << width, hidden, store, hostError, nextTimerId >>

\* A pending timer expires: its callback (lines 60-62) sets the flash title.
TimerFire(t) ==
    /\ t \in timers
    /\ timers' = timers \ {t}
    /\ title' = FlashTitle(opts[t.inst])
    /\ ev' = [NoEv EXCEPT !.type = "timer", !.timer = t]
    /\ UNCHANGED << opts, storage >>
    /\ UNCHANGED hookVars
    /\ UNCHANGED << width, hidden, store, hostError, nextTimerId >>

\* The window is resized.
Resize(w) ==
    /\ w # width
    /\ width' = w
    /\ ev' = NoEv
    /\ UNCHANGED << opts, storage >>
    /\ UNCHANGED hookVars
    /\ UNCHANGED << hidden, title, store, hostError, timers, nextTimerId >>

(* --------------------------- specifications --------------------------- *)

Lifecycle ==
    \E i \in Inst :
        \/ Mount(i)
        \/ Render(i)
        \/ ParentRender(i)
        \/ Unmount(i)

\* the events the trigger heuristics listen to
GateEvent ==
    \/ \E p \in Points : MouseMove(p[1], p[2])
    \/ \E s \in Scrolls : Scroll(s[1], s[2])
    \/ \E w \in Widths : Resize(w)

\* the events the title flasher listens to
TitleEvent ==
    \/ VisibilityChange
    \/ \E t \in timers : TimerFire(t)

HostEvent == GateEvent \/ TitleEvent

\* no render is outstanding
Quiescent == \A i \in Inst : ~needRender[i]

\* React renders after a state update, but not before the host has had the
\* chance to deliver further events: up to MaxStale of them reach the
\* listeners of the previous effect run.
Next ==
    \/ Lifecycle /\ stale' = 0
    \/ /\ Quiescent \/ stale < MaxStale
       /\ HostEvent
       /\ stale' = IF Quiescent THEN 0 ELSE stale + 1

Spec == Init /\ [][Next]_vars

\* Every state update is rendered, and its effect run, before the host
\* delivers the next event.
NextSettled ==
    \/ Lifecycle /\ stale' = 0
    \/ Quiescent /\ HostEvent /\ stale' = 0

SpecSettled == Init /\ [][NextSettled]_vars

\* Two instances on one page, and the events of the trigger heuristics.
\* Visibility changes and timers touch the title, the timers and the
\* timeoutId cells only; to the gate they are further effect runs, which
\* ParentRender provides.
NextSession ==
    \/ Lifecycle /\ stale' = 0
    \/ /\ Quiescent \/ stale < MaxStale
       /\ GateEvent
       /\ stale' = IF Quiescent THEN 0 ELSE stale + 1

SpecSession == InitSession /\ [][NextSession]_vars

\* One instance on a page whose sessionStorage is absent (null or undefined),
\* has its quota exhausted (reads work, writes throw) or denies every access.
InitStorage ==
    /\ InitPage({1})
    /\ hidden = FALSE
    /\ storage \in {"absent", "full", "denied"}
    /\ store \in (IF storage = "full" THEN BOOLEAN ELSE {FALSE})

SpecStorage == InitStorage /\ [][NextSettled]_vars

\* As SpecSettled, with the passing of time: a pending timer expires when
\* its delay has elapsed, whatever React is doing (the callback reads no
\* state of the hook), so the expiry of a pending timer is weakly fair.
TimerExpiry == (\E t \in timers : TimerFire(t)) /\ stale' = 0

NextLive ==
    \/ Lifecycle /\ stale' = 0
    \/ Quiescent /\ (GateEvent \/ VisibilityChange) /\ stale' = 0
    \/ TimerExpiry

SpecLive ==
    /\ Init
    /\ [][NextLive]_vars
    /\ WF_vars(TimerExpiry)

(* ------------------------------ claims -------------------------------- *)

RECURSIVE SumCalls(_)
SumCalls(S) ==
    IF S = {} THEN 0
    ELSE LET i == CHOOSE j \in S : TRUE IN calls[i] + SumCalls(S \ {i})

\* C1: within the lifetime of one mounted instance, whatever pointer-move and
\* scroll events arrive and however they interleave with the render and
\* effect re-run that follow a fire, onTrigger is invoked at most once.
C1_OnTriggerOnce == \A i \in Inst : calls[i] <= 1

\* C2: with storeInUserSession enabled, onTrigger is invoked at most once in
\* the whole session, counted over all instances sharing the session store.
C2_OncePerSession ==
    (\A i \in Inst : opts[i].storeInUserSession) => SumCalls(Inst) <= 1

\* C5: after an instance is unmounted, none of the listeners it registered
\* remains registered, whatever the trigger state was at teardown.
C5_NoListenerAfterUnmount ==
    \A i \in Inst :
        life[i] = "unmounted"
            => \A n \in 1..Len(listeners) : listeners[n].inst # i

\* C6: a title timer that is pending when its instance is unmounted never
\* sets the flash title afterwards.
C6_UnmountCancelsTimer == ~(ev.type = "timer" /\ ev.timer.orphaned)

\* C7: for a mounted instance, a title timer scheduled by a hide event never
\* sets the flash title once the tab has become visible again.
C7_NoFlashAfterReturn ==
    ~(/\ ev.type = "timer"
      /\ ev.timer.returned
      /\ life[ev.timer.inst] = "mounted")

\* C3: an instance that finds the session marker at activation, with
\* storeInUserSession enabled, never has a mousemove or scroll listener
\* registered and never invokes onTrigger.
C3_MarkerAtActivation ==
    \A i \in Inst :
        actSat[i] = "yes"
            => /\ calls[i] = 0
               /\ Count(listeners, i, "mouse") = 0
               /\ Count(listeners, i, "scroll") = 0

\* C3 witness: an instance that found the marker at activation has run its
\* effect again, and a pointer event has fired another instance's gate.
C3_Witness ==
    \E i \in Inst :
        /\ actSat[i] = "yes"
        /\ life[i] = "mounted"
        /\ Count(listeners, i, "vis") >= 2
        /\ ev.type = "mouse"
        /\ ev.fired # {}

\* the instances that have storeInUserSession disabled
NoPersist == { i \in Inst : ~opts[i].storeInUserSession }

\* C4: with storeInUserSession disabled the session store is neither read
\* nor written: the marker changes only when an instance with
\* storeInUserSession enabled fires; an instance with storeInUserSession
\* disabled that has not triggered has its listeners registered whatever the
\* store holds; and its first qualifying event invokes onTrigger.
C4_NoPersistIgnoresStore ==
    [][ /\ store' # store => \E j \in ev'.fired : opts[j].storeInUserSession
        /\ \A i \in NoPersist :
             /\ (life'[i] = "mounted" /\ ~closure'[i].hasTriggered)
                    => /\ Count(listeners', i, "mouse")
                            = (IF opts[i].triggerMouseMove THEN 1 ELSE 0)
                       /\ Count(listeners', i, "scroll")
                            = (IF opts[i].scrollMobile \/ opts[i].scrollDesktop
                               THEN 1 ELSE 0)
             /\ (life[i] = "mounted" /\ calls[i] = 0)
                    => /\ \A p \in Points :
                            (/\ ev'.type = "mouse"
                             /\ MouseFires(p[1], p[2], width, opts[i])
                             /\ MouseMove(p[1], p[2]))
                                => calls'[i] = 1
                       /\ \A s \in Scrolls :
                            (/\ ev'.type = "scroll"
                             /\ ScrollFires(s[1], s[2], width, opts[i])
                             /\ Scroll(s[1], s[2]))
                                => calls'[i] = 1
      ]_vars

\* C4 witness: an instance with storeInUserSession disabled has just fired
\* for the first time although the store holds the marker and an earlier
\* instance, since unmounted, had fired.
C4_Witness ==
    \E i \in NoPersist, j \in Inst :
        /\ i # j
        /\ store
        /\ life[j] = "unmounted"
        /\ calls[j] >= 1
        /\ ev.fired = {i}
        /\ calls[i] = 1

\* C8: each of the three handlers classifies the viewport as Desktop exactly
\* when the width exceeds the configured mobileWidthThreshold.
C8_Classification ==
    /\ ev.type = "mouse" =>
         \A i \in Hearers(listeners, "mouse") :
            IsDesktopMouse(width, opts[i])
                <=> width > opts[i].mobileWidthThreshold
    /\ ev.type = "scroll" =>
         \A i \in Hearers(listeners, "scroll") :
            (~IsMobileScroll(width, opts[i]))
                <=> width > opts[i].mobileWidthThreshold
    /\ ev.type = "vis" =>
         \A i \in Hearers(listeners, "vis") :
            IsDesktopVis(width, opts[i])
                <=> width > opts[i].mobileWidthThreshold

\* the conditions of section 4.4 for a pointer at (x, y) to fire the gate of
\* an instance with options o on a viewport of width w
PointerQualifies(x, y, w, o) ==
    /\ o.triggerMouseMove
    /\ w > o.mobileWidthThreshold
    /\ y <= 50
    /\ (x <= 250 \/ x >= w - 250)

\* C9: a pointer-move event on an unsatisfied gate fires the gate exactly
\* when triggerMouseMove is enabled, the viewport is Desktop (wider than the
\* configured threshold), y <= 50, and x <= 250 or x >= width - 250; an event
\* that does not fire changes no state.
C9_PointerCorner ==
    [][ \A p \in Points :
          MouseMove(p[1], p[2]) =>
            /\ \A i \in GateUnsat :
                 i \in ev'.fired
                    <=> PointerQualifies(p[1], p[2], width, opts[i])
            /\ ev'.fired = {} => UNCHANGED << hostVars, hookVars >>
      ]_vars

\* C9, for the configurations whose mobileWidthThreshold is not 0
C9_NonZeroThreshold ==
    [][ \A p \in Points :
          MouseMove(p[1], p[2]) =>
            /\ \A i \in GateUnsat :
                 opts[i].mobileWidthThreshold # 0 =>
                    (i \in ev'.fired
                        <=> PointerQualifies(p[1], p[2], width, opts[i]))
            /\ ev'.fired = {} => UNCHANGED << hostVars, hookVars >>
      ]_vars

\* the conditions of section 4.4 for a scroll to fire the gate, on a
\* scrollable document (docHeight > 0)
ScrollQualifies(scrollTop, docHeight, w, o) ==
    /\ \/ w <= o.mobileWidthThreshold /\ o.scrollMobile
       \/ w > o.mobileWidthThreshold /\ o.scrollDesktop
    /\ scrollTop * 100 >= o.percentThreshold * docHeight

\* C10: a scroll event on an unsatisfied gate fires the gate exactly when the
\* viewport is eligible and scrollPercent >= the configured percentThreshold
\* (stated for scrollable documents and configurations whose
\* mobileWidthThreshold is not 0).
C10_ScrollDepth ==
    [][ \A s \in Scrolls :
          (Scroll(s[1], s[2]) /\ s[2] > 0) =>
            \A i \in GateUnsat :
                opts[i].mobileWidthThreshold # 0 =>
                    (i \in ev'.fired
                        <=> ScrollQualifies(s[1], s[2], width, opts[i]))
      ]_vars

\* C10, for the configurations whose percentThreshold is not 0 either
C10_NonZeroThresholds ==
    [][ \A s \in Scrolls :
          (Scroll(s[1], s[2]) /\ s[2] > 0) =>
            \A i \in GateUnsat :
                (opts[i].mobileWidthThreshold # 0
                 /\ opts[i].percentThreshold # 0) =>
                    (i \in ev'.fired
                        <=> ScrollQualifies(s[1], s[2], width, opts[i]))
      ]_vars

\* C11: on a document that is not scrollable (scrollHeight - innerHeight
\* <= 0) no scroll event fires the gate of any instance, whatever scrollY is.
C11_NotScrollable ==
    [][ \A s \in Scrolls :
          (s[2] <= 0 /\ ev'.type = "scroll" /\ Scroll(s[1], s[2]))
              => ev'.fired = {}
      ]_vars

\* C12: when the session store is unavailable or its get/set fails, no
\* exception reaches the host from activation or from an event handler, and
\* the instance still invokes onTrigger at most once.
C12_StorageFailureSwallowed ==
    storage # "ok" => /\ ~hostError
                      /\ \A i \in Inst : calls[i] <= 1

\* C13: at most one title-change timer of a mounted instance is pending at
\* any time.
C13_OnePendingTimer ==
    \A i \in Inst :
        life[i] = "mounted"
            => Cardinality({ t \in timers : t.inst = i }) <= 1

\* C14: after every transition of the tab to visible, no title timer of a
\* mounted instance is pending and the document title is the title captured
\* at activation, whatever the viewport width is.
C14_VisibleRestores ==
    (ev.type = "vis" /\ ~hidden)
        => \A i \in Inst :
              life[i] = "mounted"
                  => /\ { t \in timers : t.inst = i } = {}
                     /\ title = PageTitle

\* C15: originalTitle is captured once, when the instance is activated; no
\* later step changes it while the instance is mounted.
C15_CapturedOnce ==
    [][ \A i \in Inst :
          life[i] = "mounted" => originalTitle'[i] = originalTitle[i]
      ]_vars

\* C16: a mounted instance has at most one visibilitychange, one mousemove
\* and one scroll listener registered, and once its renders are done every
\* listener it has registered closes over the values of its latest render.
C16_LatestListenersOnly ==
    \A i \in Inst :
        life[i] = "mounted"
            => /\ Count(listeners, i, "vis") <= 1
               /\ Count(listeners, i, "mouse") <= 1
               /\ Count(listeners, i, "scroll") <= 1
               /\ \A n \in 1..Len(listeners) :
                    (listeners[n].inst = i /\ ~needRender[i])
                        => /\ listeners[n].tid = closure[i].timeoutId
                           /\ listeners[n].otitle = closure[i].originalTitle

\* C17: a mounted instance whose gate is satisfied (hasTriggered, or
\* storeInUserSession with the session marker present) has no mousemove or
\* scroll listener registered (stated for the states in which every state
\* update has been rendered and its effect has run).
C17_DetectorsOnlyWhileUnsatisfied ==
    Quiescent =>
        \A i \in Inst :
            (/\ life[i] = "mounted"
             /\ AlreadySatisfied(hasTriggered[i], opts[i], store))
                => /\ Count(listeners, i, "mouse") = 0
                   /\ Count(listeners, i, "scroll") = 0

\* the tab has just been hidden on a viewport that is enabled for the title
\* change of the mounted instance i
HiddenEligible(i) ==
    /\ ev.type = "vis"
    /\ hidden
    /\ life[i] = "mounted"
    /\ TabEligible(width, opts[i])

C19_VisibilityNeverFires ==
    [][ (ev'.type = "vis" /\ hidden' # hidden)
            => UNCHANGED << calls, hasTriggered, store, listeners,
                            originalTitle, hasCleanup, life >>
      ]_vars

\* C19 witness: the tab has just been hidden and a title timer scheduled,
\* while the instance's gate is unsatisfied and its mousemove listener is
\* registered: nothing has fired.
C19_Witness ==
    \E i \in Inst :
        /\ ev.type = "vis"
        /\ hidden
        /\ \E t \in timers : t.inst = i
        /\ i \in GateUnsat
        /\ Count(listeners, i, "mouse") = 1
        /\ calls[i] = 0
        /\ ~store

\* C20: while the instance is mounted the document title is the title the
\* document had when the instance was activated or the configured flash
\* title.
C20_TitleOriginalOrFlash ==
    \A i \in Inst :
        life[i] = "mounted" => title \in {PageTitle, FlashTitle(opts[i])}

====
